---- MODULE Spec2Model ----
(***************************************************************************)
(* RawChunk / RawChunkCell of pdsl_core/src/storage/chunk/raw_chunk.rs:    *)
(* a fixed-capacity, offset-addressed view on the contract storage.        *)
(*                                                                         *)
(* The contract storage (ContractEnv, in the tests TestEnv with its read   *)
(* and write counters), Key::with_offset and ChunkError live in other      *)
(* files of the crate; they are modelled from their interface.             *)
(***************************************************************************)
EXTENDS Integers, Sequences, FiniteSets, TLC

(* ----------------------------- bounds ---------------------------------- *)
\* Largest capacity handed to RawChunk::new_unchecked (a u32 in the code).
MaxCapacity == 2
\* Cap on the calls into the contract storage (TestEnv counts them in u64).
MaxAccesses == 3

(* ------------------------- keys and values ----------------------------- *)
\* Width of a Key in bits (Key is [u8; 32] in the crate; scaled down).
KeyBits == 3
KeySpace == 2 ^ KeyBits
Keys == 0 .. (KeySpace - 1)
\* Base key of the chunks: the highest key, so that offsets from 1 on wrap.
BaseKeys == {KeySpace - 1}
\* Offsets n handed to the indexed operations (a u32 in the code): the valid
\* ones of the largest chunk, and its capacity itself.
Offsets == 0 .. MaxCapacity
\* The byte sequences stored: the empty one and a non-empty one.
ByteSeqs == {<<>>, <<7>>}

\* Option<Vec<u8>>
None == [some |-> FALSE, bytes |-> <<>>]
Some(b) == [some |-> TRUE, bytes |-> b]

\* Key::with_offset(key, n): addition in the fixed-width key space.
with_offset(key, n) == (key + n) % KeySpace

\* Result<_, ChunkError>; one record shape for every result.
Ok(val, key) ==
    [tag |-> "Ok", requested |-> 0, capacity |-> 0, val |-> val, key |-> key]
access_out_of_bounds(n, cap) ==
    [tag |-> "OutOfBounds", requested |-> n, capacity |-> cap,
     val |-> None, key |-> 0]
NoResult == [tag |-> "None", requested |-> 0, capacity |-> 0, val |-> None, key |-> 0]

(* ------------------------------ state ---------------------------------- *)
VARIABLES
    chunk,         \* the RawChunk: [live, key, capacity]
    cell,          \* the RawChunkCell borrowed from it: [live, key, n]
    storage,       \* contract storage: Keys -> Option<Vec<u8>>
    total_reads,   \* TestEnv::total_reads()
    total_writes,  \* TestEnv::total_writes()
    env_calls,     \* history: number of calls made into ContractEnv
    last,          \* history: the last call, its arguments, its result
    slots,         \* history: per offset, what was last done through the chunk
    built,         \* history: the capacity the chunk was constructed with
    other,         \* a second RawChunk, over keys of the first: [live, key, capacity]
    live_cells,    \* history: cells handed out by cell_at and not yet dropped
    dropped        \* history: what the dropped chunk left, until the next is built

vars == <<chunk, cell, storage, total_reads, total_writes, env_calls, last,
          slots, built, other, live_cells, dropped>>

NoChunk == [live |-> FALSE, key |-> 0, capacity |-> 0]
NoCell == [live |-> FALSE, key |-> 0, n |-> 0]

\* The record of a call: what was called with what, what it returned, and how
\* many calls into ContractEnv, reads and writes it made.
Call(op, n, bytes, res) ==
    [op |-> op, n |-> n, bytes |-> bytes, res |-> res,
     calls |-> env_calls' - env_calls,
     reads |-> total_reads' - total_reads,
     writes |-> total_writes' - total_writes]

\* History of slot n of the live chunk: untouched since construction (val is
\* what the storage held at its address then), stored (val) or cleared;
\* over is what the store or clear replaced.
Untouched(v) == [kind |-> "untouched", val |-> v, over |-> None]
Stored(b, old) == [kind |-> "stored", val |-> Some(b), over |-> old]
Cleared(old) == [kind |-> "cleared", val |-> None, over |-> old]
NoSlots == [n \in Offsets |-> Untouched(None)]

\* No chunk has been dropped since the last construction.
NoDropped == [key |-> 0, capacity |-> 0, vals |-> [n \in Offsets |-> None]]

\* What a chunk leaves behind when dropped: per slot, the bytes last stored
\* through it and not cleared since.
Leaves(ch, sl) ==
    [key |-> ch.key, capacity |-> ch.capacity,
     vals |-> [n \in Offsets |->
                 IF sl[n].kind = "stored" THEN sl[n].val ELSE None]]

Init ==
    /\ chunk = NoChunk
    /\ cell = NoCell
    /\ storage = [k \in Keys |-> None]
    /\ total_reads = 0
    /\ total_writes = 0
    /\ env_calls = 0
    /\ last = [op |-> "init", n |-> 0, bytes |-> <<>>, res |-> NoResult,
               calls |-> 0, reads |-> 0, writes |-> 0]
    /\ slots = NoSlots
    /\ built = 0
    /\ other = NoChunk
    /\ live_cells = 0
    /\ dropped = NoDropped

(* --------------------- the contract storage (env) ---------------------- *)
\* ContractEnv::load(key): one read; the value read is storage[key].
ContractEnv_load(key) ==
    /\ total_reads' = total_reads + 1
    /\ env_calls' = env_calls + 1
    /\ UNCHANGED <<storage, total_writes>>

\* ContractEnv::store(key, bytes): one write.
ContractEnv_store(key, bytes) ==
    /\ storage' = [storage EXCEPT ![key] = Some(bytes)]
    /\ total_writes' = total_writes + 1
    /\ env_calls' = env_calls + 1
    /\ UNCHANGED total_reads

\* ContractEnv::clear(key): one write that removes the entry.
ContractEnv_clear(key) ==
    /\ storage' = [storage EXCEPT ![key] = None]
    /\ total_writes' = total_writes + 1
    /\ env_calls' = env_calls + 1
    /\ UNCHANGED total_reads

\* No call into the contract storage.
NoEnvCall == UNCHANGED <<storage, total_reads, total_writes, env_calls>>

\* The counters are capped: a call into ContractEnv needs room.
Room == env_calls < MaxAccesses

(* ------------------------------ RawChunk ------------------------------- *)
\* capacity that returns the last valid offset.
capacity_as_last_index(ch) == ch.capacity - 1

\* RawChunk::capacity(&self): self.capacity.get()
capacity(ch) == ch.capacity

\* offset_key with the bounds check off by one (n > capacity).
offset_key_off_by_one(ch, n) ==
    IF n > capacity(ch)
    THEN {access_out_of_bounds(n, capacity(ch))}
    ELSE {Ok(None, with_offset(ch.key, n))}

\* offset_key that stops at the last key instead of wrapping around.
offset_key_saturating(ch, n) ==
    IF n >= capacity(ch)
    THEN {access_out_of_bounds(n, capacity(ch))}
    ELSE {Ok(None, IF ch.key + n >= KeySpace THEN KeySpace - 1 ELSE ch.key + n)}

\* RawChunk::offset_key(&self, n): the set of results the call can have.
\* A chunk built by new_unchecked(key, 0) holds a NonZeroU32 of 0, which is
\* undefined behaviour: the compiler may assume capacity != 0, so the
\* comparison may come out either way for such a chunk.
offset_key(ch, n) ==
    LET checked == IF n >= capacity(ch)
                   THEN access_out_of_bounds(n, capacity(ch))
                   ELSE Ok(None, with_offset(ch.key, n))
    IN  IF ch.capacity = 0
        THEN {checked, Ok(None, with_offset(ch.key, n))}
        ELSE {checked}

\* RawChunk::new_unchecked(key, capacity): no check of capacity, no storage
\* access.  The slot history starts from what the storage holds.
new_unchecked(key, cap) ==
    /\ ~chunk.live
    /\ chunk' = [live |-> TRUE, key |-> key, capacity |-> cap]
    /\ slots' = [n \in Offsets |-> Untouched(storage[with_offset(key, n)])]
    /\ dropped' = NoDropped
    /\ built' = cap
    /\ NoEnvCall
    /\ last' = Call("new_unchecked", 0, <<>>, NoResult)
    /\ UNCHANGED <<cell, other, live_cells>>

\* A destructor that clears the chunk's slots in the storage.
drop_chunk_clears ==
    /\ chunk.live /\ ~cell.live
    /\ chunk' = NoChunk
    /\ dropped' = Leaves(chunk, slots)
    /\ slots' = NoSlots
    /\ built' = 0
    /\ storage' = [k \in Keys |->
                     IF \E n \in 0 .. (built - 1) : with_offset(chunk.key, n) = k
                     THEN None ELSE storage[k]]
    /\ UNCHANGED <<total_reads, total_writes, env_calls>>
    /\ last' = Call("drop", 0, <<>>, NoResult)
    /\ UNCHANGED <<cell, other, live_cells>>

\* The chunk goes out of scope; neither struct implements Drop.
drop_chunk ==
    /\ chunk.live /\ ~cell.live
    /\ chunk' = NoChunk
    /\ dropped' = Leaves(chunk, slots)
    /\ slots' = NoSlots
    /\ built' = 0
    /\ NoEnvCall
    /\ last' = Call("drop", 0, <<>>, NoResult)
    /\ UNCHANGED <<cell, other, live_cells>>

\* chunk.capacity()
capacity_call ==
    /\ chunk.live /\ ~cell.live
    /\ NoEnvCall
    /\ last' = Call("capacity", 0, <<>>,
                    [NoResult EXCEPT !.capacity = capacity(chunk)])
    /\ UNCHANGED <<chunk, cell, slots, built, other, live_cells, dropped>>

\* cell_at that hands out a cell at the chunk's own key, whatever the offset.
cell_at_base(n) ==
    /\ chunk.live /\ ~cell.live
    /\ NoEnvCall
    /\ \E r \in offset_key(chunk, n) :
         /\ IF r.tag = "Ok"
            THEN cell' = [live |-> TRUE, key |-> chunk.key, n |-> n]
                 /\ live_cells' = live_cells + 1
            ELSE UNCHANGED <<cell, live_cells, dropped>>
         /\ last' = Call("cell_at", n, <<>>, r)
    /\ UNCHANGED <<chunk, slots, built, other, dropped>>

\* cell_at taking &self: a cell can be had while another one lives.
cell_at_shared(n) ==
    /\ chunk.live
    /\ NoEnvCall
    /\ \E r \in offset_key(chunk, n) :
         /\ IF r.tag = "Ok"
            THEN cell' = [live |-> TRUE, key |-> r.key, n |-> n]
                 /\ live_cells' = live_cells + 1
            ELSE UNCHANGED <<cell, live_cells, dropped>>
         /\ last' = Call("cell_at", n, <<>>, r)
    /\ UNCHANGED <<chunk, slots, built, other, dropped>>

\* RawChunk::cell_at(&mut self, n): the cell borrows the chunk mutably.
cell_at(n) ==
    /\ chunk.live /\ ~cell.live
    /\ NoEnvCall
    /\ \E r \in offset_key(chunk, n) :
         /\ IF r.tag = "Ok"
            THEN cell' = [live |-> TRUE, key |-> r.key, n |-> n]
                 /\ live_cells' = live_cells + 1
            ELSE UNCHANGED <<cell, live_cells, dropped>>
         /\ last' = Call("cell_at", n, <<>>, r)
    /\ UNCHANGED <<chunk, slots, built, other, dropped>>

\* load that answers from what the chunk itself last wrote or found at the
\* slot, not from the storage.
load_cached(n) ==
    /\ chunk.live /\ ~cell.live
    /\ \E r \in offset_key(chunk, n) :
         IF r.tag = "Ok"
         THEN /\ Room
              /\ ContractEnv_load(r.key)
              /\ last' = Call("load", n, <<>>, Ok(slots[n].val, 0))
         ELSE /\ NoEnvCall
              /\ last' = Call("load", n, <<>>, r)
    /\ UNCHANGED <<chunk, cell, slots, built, other, live_cells, dropped>>

\* load that reads at the chunk's own key, whatever the offset.
load_at_base(n) ==
    /\ chunk.live /\ ~cell.live
    /\ \E r \in offset_key(chunk, n) :
         IF r.tag = "Ok"
         THEN /\ Room
              /\ ContractEnv_load(chunk.key)
              /\ last' = Call("load", n, <<>>, Ok(storage[chunk.key], 0))
         ELSE /\ NoEnvCall
              /\ last' = Call("load", n, <<>>, r)
    /\ UNCHANGED <<chunk, cell, slots, built, other, live_cells, dropped>>

\* load that asks the storage twice: once whether the entry is there, once
\* for its bytes.
load_reads_twice(n) ==
    /\ chunk.live /\ ~cell.live
    /\ \E r \in offset_key(chunk, n) :
         IF r.tag = "Ok"
         THEN /\ Room
              /\ total_reads' = total_reads + 2
              /\ env_calls' = env_calls + 2
              /\ UNCHANGED <<storage, total_writes>>
              /\ last' = Call("load", n, <<>>, Ok(storage[r.key], 0))
         ELSE /\ NoEnvCall
              /\ last' = Call("load", n, <<>>, r)
    /\ UNCHANGED <<chunk, cell, slots, built, other, live_cells, dropped>>

\* RawChunk::load(&self, n)
load(n) ==
    /\ chunk.live /\ ~cell.live
    /\ \E r \in offset_key(chunk, n) :
         IF r.tag = "Ok"
         THEN /\ Room
              /\ ContractEnv_load(r.key)
              /\ last' = Call("load", n, <<>>, Ok(storage[r.key], 0))
         ELSE /\ NoEnvCall
              /\ last' = Call("load", n, <<>>, r)
    /\ UNCHANGED <<chunk, cell, slots, built, other, live_cells, dropped>>

\* store that keeps the value already there.
store_if_absent(n, bytes) ==
    /\ chunk.live /\ ~cell.live
    /\ \E r \in offset_key(chunk, n) :
         IF r.tag = "Ok"
         THEN /\ Room
              /\ IF storage[r.key].some
                 THEN ContractEnv_store(r.key, storage[r.key].bytes)
                 ELSE ContractEnv_store(r.key, bytes)
              /\ slots' = [slots EXCEPT ![n] = Stored(bytes, storage[r.key])]
              /\ last' = Call("store", n, bytes, Ok(None, 0))
         ELSE /\ NoEnvCall
              /\ slots' = slots
              /\ last' = Call("store", n, bytes, r)
    /\ UNCHANGED <<chunk, cell, built, other, live_cells, dropped>>

\* store that takes an empty byte sequence for a removal.
store_empty_clears(n, bytes) ==
    /\ chunk.live /\ ~cell.live
    /\ \E r \in offset_key(chunk, n) :
         IF r.tag = "Ok"
         THEN /\ Room
              /\ IF bytes = <<>>
                 THEN ContractEnv_clear(r.key)
                 ELSE ContractEnv_store(r.key, bytes)
              /\ slots' = [slots EXCEPT ![n] = Stored(bytes, storage[r.key])]
              /\ last' = Call("store", n, bytes, Ok(None, 0))
         ELSE /\ NoEnvCall
              /\ slots' = slots
              /\ last' = Call("store", n, bytes, r)
    /\ UNCHANGED <<chunk, cell, built, other, live_cells, dropped>>

\* store that writes at the chunk's own key, whatever the offset.
store_at_base(n, bytes) ==
    /\ chunk.live /\ ~cell.live
    /\ \E r \in offset_key(chunk, n) :
         IF r.tag = "Ok"
         THEN /\ Room
              /\ ContractEnv_store(chunk.key, bytes)
              /\ slots' = [slots EXCEPT ![n] = Stored(bytes, storage[r.key])]
              /\ last' = Call("store", n, bytes, Ok(None, 0))
         ELSE /\ NoEnvCall
              /\ slots' = slots
              /\ last' = Call("store", n, bytes, r)
    /\ UNCHANGED <<chunk, cell, built, other, live_cells, dropped>>

\* What chunk ch's load(n) returns over storage st: the set of its results.
load_results(ch, st, n) ==
    {IF r.tag = "Ok" THEN Ok(st[r.key], 0) ELSE r : r \in offset_key(ch, n)}

\* What chunk ch's store(n, bytes) makes of storage st.
store_results(ch, st, n, bytes) ==
    {IF r.tag = "Ok" THEN [st EXCEPT ![r.key] = Some(bytes)] ELSE st :
        r \in offset_key(ch, n)}

\* What chunk ch's clear(n) makes of storage st.
clear_results(ch, st, n) ==
    {IF r.tag = "Ok" THEN [st EXCEPT ![r.key] = None] ELSE st :
        r \in offset_key(ch, n)}


\* store that refuses an empty byte sequence.
store_rejects_empty(n, bytes) ==
    /\ chunk.live /\ ~cell.live
    /\ \E r \in offset_key(chunk, n) :
         IF r.tag = "Ok" /\ bytes # <<>>
         THEN /\ Room
              /\ ContractEnv_store(r.key, bytes)
              /\ slots' = [slots EXCEPT ![n] = Stored(bytes, storage[r.key])]
              /\ last' = Call("store", n, bytes, Ok(None, 0))
         ELSE /\ NoEnvCall
              /\ slots' = slots
              /\ last' = Call("store", n, bytes,
                              access_out_of_bounds(n, capacity(chunk)))
    /\ UNCHANGED <<chunk, cell, built, other, live_cells, dropped>>

\* RawChunk::store(&mut self, n, bytes)
store(n, bytes) ==
    /\ chunk.live /\ ~cell.live
    /\ \E r \in offset_key(chunk, n) :
         IF r.tag = "Ok"
         THEN /\ Room
              /\ ContractEnv_store(r.key, bytes)
              /\ slots' = [slots EXCEPT ![n] = Stored(bytes, storage[r.key])]
              /\ last' = Call("store", n, bytes, Ok(None, 0))
         ELSE /\ NoEnvCall
              /\ slots' = slots
              /\ last' = Call("store", n, bytes, r)
    /\ UNCHANGED <<chunk, cell, built, other, live_cells, dropped>>

\* clear that writes an empty byte sequence instead of removing the entry.
clear_as_empty_store(n) ==
    /\ chunk.live /\ ~cell.live
    /\ \E r \in offset_key(chunk, n) :
         IF r.tag = "Ok"
         THEN /\ Room
              /\ ContractEnv_store(r.key, <<>>)
              /\ slots' = [slots EXCEPT ![n] = Cleared(storage[r.key])]
              /\ last' = Call("clear", n, <<>>, Ok(None, 0))
         ELSE /\ NoEnvCall
              /\ slots' = slots
              /\ last' = Call("clear", n, <<>>, r)
    /\ UNCHANGED <<chunk, cell, built, other, live_cells, dropped>>

\* clear that removes the entry before it looks at the bounds check.
clear_before_check(n) ==
    /\ chunk.live /\ ~cell.live
    /\ Room
    /\ ContractEnv_clear(with_offset(chunk.key, n))
    /\ \E r \in offset_key(chunk, n) :
         IF r.tag = "Ok"
         THEN /\ slots' = [slots EXCEPT ![n] = Cleared(storage[r.key])]
              /\ last' = Call("clear", n, <<>>, Ok(None, 0))
         ELSE /\ slots' = slots
              /\ last' = Call("clear", n, <<>>, r)
    /\ UNCHANGED <<chunk, cell, built, other, live_cells, dropped>>


\* clear that gives up the last slot of the chunk once it is cleared.
clear_shrinks(n) ==
    /\ chunk.live /\ ~cell.live
    /\ \E r \in offset_key(chunk, n) :
         IF r.tag = "Ok"
         THEN /\ Room
              /\ ContractEnv_clear(r.key)
              /\ slots' = [slots EXCEPT ![n] = Cleared(storage[r.key])]
              /\ chunk' = IF n >= 1 /\ n + 1 = chunk.capacity
                          THEN [chunk EXCEPT !.capacity = n]
                          ELSE chunk
              /\ last' = Call("clear", n, <<>>, Ok(None, 0))
         ELSE /\ NoEnvCall
              /\ slots' = slots
              /\ chunk' = chunk
              /\ last' = Call("clear", n, <<>>, r)
    /\ UNCHANGED <<cell, built, other, live_cells, dropped>>

\* RawChunk::clear(&mut self, n)
clear(n) ==
    /\ chunk.live /\ ~cell.live
    /\ \E r \in offset_key(chunk, n) :
         IF r.tag = "Ok"
         THEN /\ Room
              /\ ContractEnv_clear(r.key)
              /\ slots' = [slots EXCEPT ![n] = Cleared(storage[r.key])]
              /\ last' = Call("clear", n, <<>>, Ok(None, 0))
         ELSE /\ NoEnvCall
              /\ slots' = slots
              /\ last' = Call("clear", n, <<>>, r)
    /\ UNCHANGED <<chunk, cell, built, other, live_cells, dropped>>

(* ---------------------------- RawChunkCell ----------------------------- *)
\* RawChunkCell::load(&self)
cell_load ==
    /\ cell.live
    /\ Room
    /\ ContractEnv_load(cell.key)
    /\ last' = Call("cell_load", cell.n, <<>>,
                    [NoResult EXCEPT !.val = storage[cell.key]])
    /\ UNCHANGED <<chunk, cell, slots, built, other, live_cells, dropped>>

\* RawChunkCell::store(&mut self, bytes)
cell_store(bytes) ==
    /\ cell.live
    /\ Room
    /\ ContractEnv_store(cell.key, bytes)
    /\ slots' = [slots EXCEPT ![cell.n] = Stored(bytes, storage[cell.key])]
    /\ last' = Call("cell_store", cell.n, bytes, NoResult)
    /\ UNCHANGED <<chunk, cell, built, other, live_cells, dropped>>

\* RawChunkCell::clear(&mut self)
cell_clear ==
    /\ cell.live
    /\ Room
    /\ ContractEnv_clear(cell.key)
    /\ slots' = [slots EXCEPT ![cell.n] = Cleared(storage[cell.key])]
    /\ last' = Call("cell_clear", cell.n, <<>>, NoResult)
    /\ UNCHANGED <<chunk, cell, built, other, live_cells, dropped>>

\* The cell goes out of scope, which ends the borrow of the chunk.
drop_cell ==
    /\ cell.live
    /\ cell' = NoCell
    /\ live_cells' = live_cells - 1
    /\ NoEnvCall
    /\ last' = Call("drop_cell", 0, <<>>, NoResult)
    /\ UNCHANGED <<chunk, slots, built, other, dropped>>

(* ------------------------ a second RawChunk ---------------------------- *)
\* Base key of the second chunk: its slot 0 is slot 1 of the first chunk.
\* new_unchecked does not check that two chunks keep apart.
OtherKeys == {with_offset(key, 1) : key \in BaseKeys}

\* RawChunk::new_unchecked(key, capacity) for the second chunk.
other_new(key, cap) ==
    /\ ~other.live
    /\ other' = [live |-> TRUE, key |-> key, capacity |-> cap]
    /\ NoEnvCall
    /\ last' = Call("other_new", 0, <<>>, NoResult)
    /\ UNCHANGED <<chunk, cell, slots, built, live_cells, dropped>>

\* The second chunk goes out of scope.
other_drop ==
    /\ other.live
    /\ other' = NoChunk
    /\ NoEnvCall
    /\ last' = Call("other_drop", 0, <<>>, NoResult)
    /\ UNCHANGED <<chunk, cell, slots, built, live_cells, dropped>>

\* RawChunk::load(&self, n) on the second chunk.
other_load(n) ==
    /\ other.live
    /\ \E r \in offset_key(other, n) :
         IF r.tag = "Ok"
         THEN /\ Room
              /\ ContractEnv_load(r.key)
              /\ last' = Call("other_load", n, <<>>, Ok(storage[r.key], 0))
         ELSE /\ NoEnvCall
              /\ last' = Call("other_load", n, <<>>, r)
    /\ UNCHANGED <<chunk, cell, slots, built, other, live_cells, dropped>>

\* RawChunk::store(&mut self, n, bytes) on the second chunk.
other_store(n, bytes) ==
    /\ other.live
    /\ \E r \in offset_key(other, n) :
         IF r.tag = "Ok"
         THEN /\ Room
              /\ ContractEnv_store(r.key, bytes)
              /\ last' = Call("other_store", n, bytes, Ok(None, 0))
         ELSE /\ NoEnvCall
              /\ last' = Call("other_store", n, bytes, r)
    /\ UNCHANGED <<chunk, cell, slots, built, other, live_cells, dropped>>

\* RawChunk::clear(&mut self, n) on the second chunk.
other_clear(n) ==
    /\ other.live
    /\ \E r \in offset_key(other, n) :
         IF r.tag = "Ok"
         THEN /\ Room
              /\ ContractEnv_clear(r.key)
              /\ last' = Call("other_clear", n, <<>>, Ok(None, 0))
         ELSE /\ NoEnvCall
              /\ last' = Call("other_clear", n, <<>>, r)
    /\ UNCHANGED <<chunk, cell, slots, built, other, live_cells, dropped>>

(* --------------------------- specification ----------------------------- *)
\* The calls on a chunk and on its cell.
Operate ==
    \/ drop_chunk
    \/ capacity_call
    \/ \E n \in Offsets : cell_at(n)
    \/ \E n \in Offsets : load(n)
    \/ \E n \in Offsets, bytes \in ByteSeqs : store(n, bytes)
    \/ \E n \in Offsets : clear(n)
    \/ cell_load
    \/ \E bytes \in ByteSeqs : cell_store(bytes)
    \/ cell_clear
    \/ drop_cell

\* Callers that keep new_unchecked's contract: the capacity is never 0.
NextKept ==
    \/ \E key \in BaseKeys, cap \in 1 .. MaxCapacity : new_unchecked(key, cap)
    \/ Operate

\* All callers: new_unchecked takes any capacity, 0 included.
Next ==
    \/ \E key \in BaseKeys : new_unchecked(key, 0)
    \/ NextKept

Spec == Init /\ [][Next]_vars

SpecKept == Init /\ [][NextKept]_vars

\* The calls on the second chunk, which has one slot.
OperateOther ==
    \/ \E key \in OtherKeys : other_new(key, 1)
    \/ other_drop
    \/ \E n \in Offsets : other_load(n)
    \/ \E n \in Offsets, bytes \in ByteSeqs : other_store(n, bytes)
    \/ \E n \in Offsets : other_clear(n)

\* Callers that hold two chunks whose keys overlap.
NextAlias ==
    \/ NextKept
    \/ OperateOther

SpecAlias == Init /\ [][NextAlias]_vars

(* ------------------------------ claims --------------------------------- *)
IndexedOps == {"load", "store", "clear", "cell_at"}
\* The last call was an indexed operation on the chunk (which is still there:
\* no indexed operation drops it).
Indexed == last.op \in IndexedOps /\ chunk.live
Rejected == Indexed /\ last.res.tag = "OutOfBounds"
Accepted == Indexed /\ last.res.tag = "Ok"

C2_RejectedTouchesNothing ==
    [][(last'.op \in IndexedOps /\ last'.res.tag = "OutOfBounds")
          => /\ storage' = storage
             /\ total_reads' = total_reads
             /\ total_writes' = total_writes
             /\ env_calls' = env_calls
             /\ last'.calls = 0]_vars

\* A clear was rejected when the storage held a value and both counters had
\* counted.
C2_Witness ==
    /\ Rejected /\ last.op = "clear"
    /\ built >= 1
    /\ total_reads >= 1 /\ total_writes >= 1
    /\ \E k \in Keys : storage[k].some

\* C3: round trip.  On every chunk, for every valid offset n and every byte
\* sequence b (the empty one included), a successful store(n, b) immediately
\* followed by load(n) returns Ok(Some(b)), whatever the storage held before.
C3_RoundTrip ==
    [][(/\ last.op = "store" /\ last.res.tag = "Ok"
        /\ chunk.live /\ last.n < capacity(chunk)
        /\ last'.op = "load" /\ last'.n = last.n)
          => last'.res = Ok(Some(last.bytes), 0)]_vars

\* A load, the first read, returned the empty byte sequence that a store had
\* written over a non-empty value; no other slot of the chunk was touched.
C3_Witness ==
    /\ Accepted /\ last.op = "load" /\ last.n < capacity(chunk)
    /\ last.res.val = Some(<<>>)
    /\ slots[last.n].kind = "stored" /\ slots[last.n].val = Some(<<>>)
    /\ slots[last.n].over.some /\ slots[last.n].over.bytes # <<>>
    /\ \A m \in Offsets \ {last.n} : slots[m].kind = "untouched"
    /\ total_reads = 1

\* C4: independence of slots.  On one chunk, for distinct valid offsets i and
\* j, a successful store(i, b) or clear(i) leaves the result of load(j) as it
\* was, in every reachable state.
C4_Independence ==
    [][\A j \in Offsets :
         (/\ last'.op \in {"store", "clear"} /\ last'.res.tag = "Ok"
          /\ chunk.live
          /\ last'.n < capacity(chunk) /\ j < capacity(chunk) /\ j # last'.n)
            => load_results(chunk, storage', j) = load_results(chunk, storage, j)]_vars

\* Slot i was stored twice; slot j still holds the value stored there before.
C4_Witness ==
    /\ Accepted /\ last.op = "store" /\ last.n < capacity(chunk)
    /\ slots[last.n].over.some
    /\ \E j \in Offsets :
         /\ j # last.n /\ j < capacity(chunk)
         /\ slots[j].kind = "stored" /\ slots[j].val.bytes # <<>>
         /\ load_results(chunk, storage, j) = {Ok(slots[j].val, 0)}

\* C5: clear.  For every valid offset n, clear(n) returns Ok in every state,
\* and a load(n) that comes after a clear(n), with no store(n, _) in between,
\* returns Ok(None).
C5_Clear ==
    /\ (Indexed /\ last.op = "clear" /\ last.n < capacity(chunk))
          => last.res = Ok(None, 0)
    /\ (Indexed /\ last.op = "load" /\ last.n < capacity(chunk)
          /\ slots[last.n].kind = "cleared")
          => last.res = Ok(None, 0)

\* A load returned absent at a slot whose stored value a clear had removed.
C5_Witness ==
    /\ Accepted /\ last.op = "load" /\ last.n < capacity(chunk)
    /\ slots[last.n].kind = "cleared" /\ slots[last.n].over.some
    /\ last.res = Ok(None, 0)

\* No store or clear was made through the chunk since its construction.
AllUntouched == \A m \in Offsets : slots[m].kind = "untouched"

\* C6 as claimed: load(n) returns the bytes of the most recent store at n if
\* no clear(n) came after it, and absent otherwise.  Fails for a slot that was
\* neither stored nor cleared through the chunk, when the storage already
\* held a value at its address.
C6_AbsentUnlessStored ==
    (Accepted /\ last.op = "load" /\ last.n < capacity(chunk))
        => last.res.val = IF slots[last.n].kind = "stored"
                          THEN slots[last.n].val
                          ELSE None

\* C6 as amended: load(n) returns the bytes of the most recent store at n if
\* no clear(n) came after it, absent if a clear(n) came after it (or came
\* without one), and, for a slot neither stored nor cleared through the
\* chunk, the value the storage held at the slot's address when the chunk was
\* constructed.
C6_LastWriteWins ==
    (Accepted /\ last.op = "load" /\ last.n < capacity(chunk))
        => last.res.val = slots[last.n].val

\* A load returned b2 = <<7>>, stored over b1 = <<>> of another length, after
\* two writes.
C6_Witness ==
    /\ Accepted /\ last.op = "load" /\ last.n < capacity(chunk)
    /\ slots[last.n].kind = "stored"
    /\ slots[last.n].over = Some(<<>>)
    /\ last.res.val = Some(<<7>>)
    /\ total_writes = 2

\* C7 as claimed: load(n) of a valid n on a chunk just constructed returns
\* absent.  Fails when the chunk is constructed over keys that hold values.
C7_AbsentAfterConstruction ==
    (Accepted /\ last.op = "load" /\ last.n < capacity(chunk) /\ AllUntouched)
        => last.res = Ok(None, 0)

\* C7 as amended: load(n) of a valid n on a chunk just constructed returns
\* what the storage held at the slot's address when the chunk was
\* constructed: absent in a storage never written to.
C7_LoadAfterConstruction ==
    (Accepted /\ last.op = "load" /\ last.n < capacity(chunk) /\ AllUntouched)
        => /\ last.res = Ok(slots[last.n].val, 0)
           /\ total_writes = 0 => last.res = Ok(None, 0)

\* The last valid slot of a chunk of the largest capacity, constructed over a
\* storage never written to, loaded absent.
C7_Witness ==
    /\ Accepted /\ last.op = "load" /\ AllUntouched
    /\ built = MaxCapacity /\ last.n = built - 1
    /\ total_writes = 0
    /\ last.res = Ok(None, 0)

ChunkOps == {"capacity", "cell_at", "load", "store", "clear"}
CellOps == {"cell_load", "cell_store", "cell_clear"}

\* C8 as claimed: every operation makes exactly one call into the store, a
\* successful load one read and no write, a successful store one write and no
\* read.  Fails for capacity(), cell_at(n) and every rejected operation,
\* which make none.
C8_EveryOperationOneCall ==
    /\ last.op \in ChunkOps \cup CellOps => last.calls = 1
    /\ (Accepted /\ last.op = "load") => (last.reads = 1 /\ last.writes = 0)
    /\ (Accepted /\ last.op = "store") => (last.reads = 0 /\ last.writes = 1)

\* C8 as amended: every successful load, store and clear, of the chunk or of
\* a cell, makes exactly one call into the store; capacity(), cell_at(n) and
\* every rejected operation make none.  A successful Chunk load(n) adds
\* exactly 1 to the read count and nothing to the write count, a successful
\* Chunk store(n, b) exactly 1 to the write count and nothing to the read
\* count, on first and on repeated accesses.
C8_AccessCounting ==
    /\ (Accepted /\ last.op \in {"load", "store", "clear"}) => last.calls = 1
    /\ last.op \in CellOps => last.calls = 1
    /\ (last.op \in {"capacity", "cell_at"} \/ Rejected) => last.calls = 0
    /\ (Accepted /\ last.op = "load") => (last.reads = 1 /\ last.writes = 0)
    /\ (Accepted /\ last.op = "store") => (last.reads = 0 /\ last.writes = 1)

\* A second successful load counted one read, after a store had counted one
\* write.
C8_Witness ==
    /\ Accepted /\ last.op = "load"
    /\ last.calls = 1 /\ last.reads = 1 /\ last.writes = 0
    /\ total_reads = 2 /\ total_writes = 1

\* C9: capacity() returns the capacity the chunk was constructed with, after
\* any calls of load, store, clear and cell_at, accepted or rejected; no call
\* changes the chunk's capacity, and capacity() changes neither the chunk nor
\* the storage nor its counters.
C9_Capacity ==
    /\ [](last.op = "capacity" => last.res.capacity = built)
    /\ [][(chunk.live /\ chunk'.live) => capacity(chunk') = capacity(chunk)]_vars
    /\ [][last'.op = "capacity"
            => UNCHANGED <<chunk, cell, storage, total_reads, total_writes,
                           env_calls>>]_vars

\* capacity() returned the largest capacity after reads, writes and a cell.
C9_Witness ==
    /\ last.op = "capacity"
    /\ built = MaxCapacity /\ last.res.capacity = MaxCapacity
    /\ total_reads >= 1 /\ total_writes >= 2
    /\ \E m \in Offsets : slots[m].kind = "cleared"

\* The offsets chunk ch accepts.
AcceptedOffsets(ch) ==
    {n \in Offsets : \E r \in offset_key(ch, n) : r.tag = "Ok"}

\* C10 as claimed: every chunk new_unchecked(key, capacity) produces has
\* capacity >= 1 and accepts exactly the offsets in [0, capacity).  Fails for
\* new_unchecked(key, 0).
C10_EveryChunkNonEmpty ==
    chunk.live
        => /\ capacity(chunk) >= 1
           /\ AcceptedOffsets(chunk) = {n \in Offsets : n < capacity(chunk)}

\* C10 as amended: every chunk new_unchecked(key, capacity) produces from a
\* capacity >= 1 has capacity() >= 1 and accepts exactly the offsets in
\* [0, capacity): each of them always, no other ever.  (new_unchecked does
\* not reject capacity 0.)
C10_ValidOffsets ==
    (chunk.live /\ built >= 1)
        => /\ capacity(chunk) >= 1
           /\ \A n \in Offsets :
                \A r \in offset_key(chunk, n) : r.tag = "Ok" <=> n < built
           /\ Indexed => (last.res.tag = "Ok" <=> last.n < built)

\* cell_at accepted the last valid offset of a chunk of the largest capacity.
C10_Witness ==
    /\ Accepted /\ last.op = "cell_at"
    /\ built = MaxCapacity /\ last.n = built - 1
    /\ cell.live

LoadOps == {"load", "cell_load", "other_load"}
StoreOps == {"store", "cell_store", "other_store"}
ClearOps == {"clear", "cell_clear", "other_clear"}
\* The call went through to the storage.
WentThrough(call) == call.calls = 1

\* The address call c used, made through chunk ch, its cell ce or the second
\* chunk ot.
AddressOf(c, ch, ce, ot) ==
    IF c.op \in {"load", "store", "clear"} THEN with_offset(ch.key, c.n)
    ELSE IF c.op \in CellOps THEN ce.key
    ELSE with_offset(ot.key, c.n)

\* C11: no caching.  Whatever was done through the chunk, its cell and a
\* second chunk over the same keys, every load (Chunk::load(n), Cell::load())
\* returns the storage's current value at the derived address, and a write
\* made through one handle is what the next load of that address returns,
\* through whichever handle.
C11_NoCaching ==
    /\ []((last.op \in LoadOps /\ WentThrough(last))
            => last.res.val = storage[AddressOf(last, chunk, cell, other)])
    /\ [][(/\ last.op \in StoreOps \cup ClearOps /\ WentThrough(last)
           /\ last'.op \in LoadOps /\ WentThrough(last')
           /\ AddressOf(last', chunk', cell', other')
                = AddressOf(last, chunk, cell, other))
            => last'.res.val = IF last.op \in StoreOps
                               THEN Some(last.bytes)
                               ELSE None]_vars

\* The first chunk loaded, at its slot 1, bytes it never stored or found
\* there itself: the second chunk had stored them at its slot 0.
C11_Witness ==
    /\ last.op = "load" /\ WentThrough(last) /\ last.n = 1
    /\ other.live /\ with_offset(other.key, 0) = with_offset(chunk.key, 1)
    /\ last.res.val = Some(<<7>>)
    /\ slots[1].val # Some(<<7>>)

\* The live cell was handed out for a valid offset of the chunk.
ValidCell == cell.live /\ chunk.live /\ cell.n < capacity(chunk)

\* C12: cell and chunk agree.  For every valid offset n the cell cell_at(n)
\* returns is bound to the address load(n), store(n, _) and clear(n) use, and
\* keeps it as long as it lives; cell.load(), cell.store(b) and cell.clear()
\* return and leave in the storage and its counters what chunk.load(n),
\* chunk.store(n, b) and chunk.clear(n) would from the same state; cell_at
\* itself makes no call into the storage.
C12_CellIsChunkSlot ==
    /\ [](ValidCell
            => \A r \in offset_key(chunk, cell.n) :
                 r.tag = "Ok" /\ r.key = cell.key)
    /\ [][(cell.live /\ cell'.live) => cell' = cell]_vars
    /\ [][last'.op = "cell_at"
            => /\ last'.calls = 0
               /\ UNCHANGED <<storage, total_reads, total_writes>>]_vars
    /\ [][(ValidCell /\ last'.op = "cell_load")
            => /\ Ok(last'.res.val, 0) \in load_results(chunk, storage, cell.n)
               /\ storage' = storage
               /\ total_reads' = total_reads + 1
               /\ total_writes' = total_writes]_vars
    /\ [][(ValidCell /\ last'.op = "cell_store")
            => /\ storage' \in store_results(chunk, storage, cell.n, last'.bytes)
               /\ total_reads' = total_reads
               /\ total_writes' = total_writes + 1]_vars
    /\ [][(ValidCell /\ last'.op = "cell_clear")
            => /\ storage' \in clear_results(chunk, storage, cell.n)
               /\ total_reads' = total_reads
               /\ total_writes' = total_writes + 1]_vars

\* A cell for slot 1 of a chunk of the largest capacity stored bytes, which
\* are now at the address of slot 1 and not at the chunk's own key.
C12_Witness ==
    /\ ValidCell /\ last.op = "cell_store" /\ last.bytes = <<7>>
    /\ built = MaxCapacity /\ cell.n = 1
    /\ load_results(chunk, storage, 1) = {Ok(Some(<<7>>), 0)}
    /\ storage[chunk.key] = None

\* C13: exclusive borrow.  At most one cell obtained from the chunk is live
\* at any time; while it is live no capacity, load, store, clear or cell_at is
\* performed on the chunk and the chunk is not dropped; once the cell is
\* dropped no cell is left and the chunk is free for its operations again.
C13_ExclusiveBorrow ==
    /\ [](live_cells <= 1 /\ (cell.live <=> live_cells = 1))
    /\ [](cell.live => chunk.live)
    /\ [][cell.live => last'.op \notin ChunkOps \cup {"drop", "new_unchecked"}]_vars
    /\ [](last.op = "drop_cell" => (chunk.live /\ ~cell.live /\ live_cells = 0))

\* A cell is live, and was used to overwrite what the chunk had stored in its
\* slot before the cell was handed out.
C13_Witness ==
    /\ cell.live /\ live_cells = 1 /\ last.op = "cell_clear"
    /\ slots[cell.n].over = Some(<<7>>)

\* C14: destruction never deletes stored bytes.  Dropping the chunk or the
\* cell makes no call into the storage and leaves every key of it and both
\* counters as they were; when the next chunk is constructed with the dropped
\* chunk's key and capacity, load at every valid offset yields the value
\* last stored there through the dropped chunk.
C14_DropKeepsBytes ==
    /\ [][last'.op \in {"drop", "drop_cell"}
            => /\ last'.calls = 0
               /\ UNCHANGED <<storage, total_reads, total_writes>>]_vars
    /\ [][(/\ last'.op = "new_unchecked"
           /\ dropped.key = chunk'.key /\ dropped.capacity = capacity(chunk'))
            => \A n \in 0 .. (capacity(chunk') - 1) :
                 dropped.vals[n].some
                   => load_results(chunk', storage', n) = {Ok(dropped.vals[n], 0)}]_vars

\* A chunk of the largest capacity that had stored bytes in its last slot was
\* dropped, and the bytes are still in the storage at that slot's key.
C14_Witness ==
    /\ last.op = "drop" /\ ~chunk.live
    /\ dropped.capacity = MaxCapacity
    /\ dropped.vals[MaxCapacity - 1] = Some(<<7>>)
    /\ storage[with_offset(dropped.key, MaxCapacity - 1)] = Some(<<7>>)

\* The keys offset_key(n) can return for chunk ch.
DerivedKeys(ch, n) == {r.key : r \in {q \in offset_key(ch, n) : q.tag = "Ok"}}

Outcomes(ch, n) == {r.tag : r \in offset_key(ch, n)}

C17_OnlyOutOfBounds ==
    /\ (Indexed /\ last.n < capacity(chunk)) => last.res.tag = "Ok"
    /\ Indexed => last.res.tag \in {"Ok", "OutOfBounds"}
    /\ last.op \in {"capacity", "drop", "drop_cell", "new_unchecked"} \cup CellOps
         => last.res.tag # "OutOfBounds"
    /\ Rejected
         => /\ last.n >= capacity(chunk)
            /\ last.res = access_out_of_bounds(last.n, capacity(chunk))

\* On a chunk of the largest capacity, store accepted the empty byte sequence
\* at the last slot, over bytes that were there.
C17_Witness ==
    /\ Accepted /\ last.op = "store" /\ last.bytes = <<>>
    /\ built = MaxCapacity /\ last.n = built - 1
    /\ slots[last.n].over = Some(<<7>>)
    /\ total_writes >= 2

====
